---- MODULE Spec2Model ----
(***************************************************************************)
(* lockbox: the command router of src/cli/mod.rs (run_cli) and the older   *)
(* router of src/cli/commands.rs (Command::map), over a model of the       *)
(* encrypted vault (PasswordStore) and of the action layer.                *)
(*                                                                         *)
(* One invocation of the program is one run: a Command is dispatched, the  *)
(* router resolves the passphrases, opens the vault, calls the action and  *)
(* prints the outcome.  The vault file outlives the run.  The store, the   *)
(* actions, the prompt helper and the REPL are not part of the two source  *)
(* files; they are modelled from their contract in the specification and   *)
(* from what the tests of mod.rs show of them.                             *)
(***************************************************************************)
EXTENDS Naturals, Sequences, FiniteSets, TLC

\* The number of commands and REPL selections in one behaviour.
MaxRuns == 3

\* Option::None, for every Option<String> of a Command.
None == "None"

--------------------------------------------------------------------------
(* Values the inputs are drawn from. *)

Passphrases == {"m1", "m2"}
Services == {"s1"}
Usernames == {None, "u1", "u2"}
Keys == Services \X Usernames
PasswordLits == {"p1", "p2"}

\* --file-name: absent, or one explicit file.
FileNames == {None, "alt.lb"}
DEFAULT_PASSWORD_FILENAME == "default.lb"
Paths == {DEFAULT_PASSWORD_FILENAME, "alt.lb"}

\* The character classes of a generation policy and one character of each.
Classes == {"lowercase", "uppercase", "numbers", "symbols"}
ClassOfChar(ch) ==
    CASE ch = "a" -> "lowercase"
      [] ch = "A" -> "uppercase"
      [] ch = "1" -> "numbers"
      [] OTHER    -> "symbols"

\* The passwords the generator can return in this model, by their characters.
GenPool == {"aa", "a1", "1a"}
CharsOf(p) ==
    CASE p = "aa" -> <<"a", "a">>
      [] p = "a1" -> <<"a", "1">>
      [] p = "1a" -> <<"1", "a">>
      [] OTHER    -> <<>>
ClassesOf(p) == {ClassOfChar(CharsOf(p)[i]) : i \in 1..Len(CharsOf(p))}

\* Length::get_val() of the lengths a command may carry.
Lengths == {2}
\* The combinations of --lowercase/--uppercase/--numbers/--symbols used.
FlagSets == {{}, {"lowercase"}, {"lowercase", "numbers"}}
Counts == {0, 1, 2}

Errors == {"AuthenticationError", "IoError", "NotFoundError",
           "ValidationError", "GenerationError"}

--------------------------------------------------------------------------
(* The vault file: the passphrase it is encrypted under and its records,    *)
(* each a pair of the (service, username) key and the password.            *)

NoFile == "NoFile"
NoRecords == {}
EmptyFile == [key |-> NoFile, recs |-> NoRecords]

\* list_records
RecordSet(f) == f.recs
\* The records the vault holds under one key.
RecordsOf(f, k) == {r \in f.recs : r[1] = k}

\* PasswordStore::new(path, master): open an existing vault or create one.
OpenResult(f, pass, io) ==
    IF io THEN "IoError"
    ELSE IF f.key = NoFile \/ f.key = pass THEN "Ok"
    ELSE "AuthenticationError"

OpenedFile(f, pass) ==
    IF f.key = NoFile THEN [key |-> pass, recs |-> NoRecords] ELSE f

\* insert_record: insert or overwrite the record of (service, username).
InsertRecord(f, k, pw) == [f EXCEPT !.recs = (@ \ RecordsOf(f, k)) \cup {<<k, pw>>}]

\* find_record: the password of the key, None if the vault holds no such record.
FindRecord(f, k) ==
    IF RecordsOf(f, k) = {} THEN None ELSE (CHOOSE r \in RecordsOf(f, k) : TRUE)[2]

\* delete_record
DeleteRecord(f, k) == [f EXCEPT !.recs = @ \ RecordsOf(f, k)]

\* rekey: every record re-encrypted under the new passphrase, atomically.
Rekey(f, new) == [f EXCEPT !.key = new]

--------------------------------------------------------------------------
(* The generator: PasswordGenerator with strict(true), and generate_one. *)

\* The outcomes of one generation: a password of the requested length that
\* holds a character of every enabled class and of no other class, or an
\* error when no class is enabled or the length cannot hold every class.
GenOutcomes(length, flags) ==
    LET fit == {p \in GenPool : Len(CharsOf(p)) = length /\ ClassesOf(p) = flags}
    IN  IF flags = {} \/ fit = {} THEN {"GenerationError"} ELSE fit

--------------------------------------------------------------------------
(* Commands. *)

Cmd(op, file_name, key, password, m, new_m, generate, length, flags, count, show) ==
    [op |-> op, file_name |-> file_name, service |-> key[1], username |-> key[2],
     password |-> password, master |-> m, new_master |-> new_m,
     generate |-> generate, length |-> length, flags |-> flags,
     count |-> count, show_passwords |-> show]

NoKey == <<None, None>>
NoCmd == Cmd("None", None, NoKey, None, None, None, FALSE, 2, {}, 1, FALSE)

MasterOpts == {None} \cup Passphrases

AddCommands ==
    {Cmd("Add", f, k, pw, m, None, FALSE, 2, {"lowercase"}, 1, FALSE) :
        f \in FileNames, k \in Keys, pw \in {None} \cup PasswordLits, m \in MasterOpts}
    \cup
    {Cmd("Add", f, k, pw, m, None, TRUE, len, fl, 1, FALSE) :
        f \in FileNames, k \in Keys, pw \in {None, "p1"}, m \in MasterOpts,
        len \in Lengths, fl \in FlagSets}
GenerateCommands ==
    {Cmd("Generate", None, NoKey, None, None, None, FALSE, len, fl, n, FALSE) :
        len \in Lengths, fl \in FlagSets, n \in Counts}
ListCommands ==
    {Cmd("List", f, NoKey, None, m, None, FALSE, 2, {}, 1, sh) :
        f \in FileNames, m \in MasterOpts, sh \in BOOLEAN}
RemoveCommands ==
    {Cmd("Remove", f, k, None, m, None, FALSE, 2, {}, 1, FALSE) :
        f \in FileNames, k \in Keys, m \in MasterOpts}
ShowCommands ==
    {Cmd("Show", f, k, None, m, None, FALSE, 2, {}, 1, FALSE) :
        f \in FileNames, k \in Keys, m \in MasterOpts}
UpdateMasterCommands ==
    {Cmd("UpdateMaster", f, NoKey, None, m, nm, FALSE, 2, {}, 1, FALSE) :
        f \in FileNames, m \in MasterOpts, nm \in MasterOpts}
ReplCommands ==
    {Cmd("Repl", f, NoKey, None, None, None, FALSE, 2, {}, 1, FALSE) : f \in FileNames}

\* The Command enum of args.rs, as run_cli matches it.
Commands ==
    AddCommands \cup GenerateCommands \cup ListCommands \cup RemoveCommands
    \cup ShowCommands \cup UpdateMasterCommands \cup ReplCommands

\* The Command enum of commands.rs: no file name, no UpdateMaster, no Repl.
\* get_random_password and generate_password return no Result there, and what
\* they do when no class is enabled is not in the sources: the commands of
\* this router that generate are drawn with a class enabled.
MapCommands ==
    {c \in AddCommands \cup GenerateCommands \cup ListCommands
           \cup RemoveCommands \cup ShowCommands :
        /\ c.file_name = None
        /\ (c.generate \/ c.op = "Generate") => c.flags # {}}

--------------------------------------------------------------------------
(* The router's own decisions (run_cli). *)

\* A router that resolves a passphrase and opens the vault for Generate too.
NeedsVaultAll(op) == op # "Repl"

\* The commands that open a vault: every arm of the match but Generate and Repl.
NeedsVault(op) == op \in {"Add", "List", "Remove", "Show", "UpdateMaster"}

\* An absent option falling back on a fixed passphrase, not on the prompt's answer.
ResolveSecretDefaulted(opt, answer) == IF opt # None THEN opt ELSE "m1"

\* master.unwrap_or_else(|| read_hidden_input(label, prompt_password))
ResolveSecret(opt, answer) == IF opt # None THEN opt ELSE answer

\* An UpdateMaster that opens the vault right after the first passphrase.
AfterMasterOpens(op) == "open"

\* What follows the resolution of the master passphrase: UpdateMaster resolves
\* the new passphrase next, every other command opens the vault.
AfterMaster(op) == IF op = "UpdateMaster" THEN "new_master" ELSE "open"

\* The labels handed to read_hidden_input.
MasterLabel == "master password"
NewMasterLabel == "new master password"

\* get_password_store_path(file_name).unwrap_or(PathBuf::from(DEFAULT_PASSWORD_FILENAME))
ResolvePath(file_name) ==
    IF file_name # None THEN file_name ELSE DEFAULT_PASSWORD_FILENAME

\* A write to the output sink: print(writer, text, message_type), or writeln!.
\* The text is prefix + msg; rows are the lines of a listing.
Entry(style, prefix, msg, rows) ==
    [style |-> style, prefix |-> prefix, msg |-> msg, rows |-> rows]

\* The Err arm of each command's match on PasswordStore::new.
OpenErrEntry(op, err) ==
    CASE op = "Add"    -> Entry("Raw", "", err, <<>>)
      [] op = "List"   -> Entry("Error", "", err, <<>>)
      [] op = "Remove" -> Entry("None", "", err, <<>>)
      [] op = "Show"   -> Entry("None", "Error: ", err, <<>>)
      [] OTHER         -> Entry("None", "Error: ", err, <<>>)

\* An Err arm that prints and does not return.
AfterOpenFallsThrough(res) == "act"

\* Where the match on PasswordStore::new leaves the router: the Err arm returns.
AfterOpen(res) == IF res = "Ok" THEN "act" ELSE "done"

\* The Err arm of each command's match on the action's result.
ActErrEntry(op, err) ==
    CASE op = "Remove"       -> Entry("None", "Error: ", err, <<>>)
      [] op = "UpdateMaster" ->
            Entry("Error", "Failed to update master password: ", err, <<>>)
      [] OTHER               -> Entry("Error", "Error: ", err, <<>>)

\* The Ok arm of the match on add_password's result.
AddedEntry == Entry("Success", "", "Password added successfully", <<>>)

\* A call that drops the username.
AddKeyNoUser(c) == <<c.service, None>>
RemoveKeyNoUser(c) == <<c.service, None>>
ShowKeyNoUser(c) == <<c.service, None>>

\* The (service, username) run_cli hands to add_password, remove_password
\* and show_password.
AddKey(c) == <<c.service, c.username>>
RemoveKey(c) == <<c.service, c.username>>
ShowKey(c) == <<c.service, c.username>>

\* The (service, username) Command::map hands to its actions.
ActionKey(c) == <<c.service, c.username>>

\* A generator built with a fixed class, whatever the command's flags.
PasswordGeneratorLower(c) == [length |-> c.length, flags |-> {"lowercase"}]

\* PasswordGenerator::new().length(..).lowercase_letters(..) .. .strict(true):
\* the generator run_cli builds from the Add command's own options.
PasswordGeneratorOf(c) == [length |-> c.length, flags |-> c.flags]

\* A call that always reveals.
ListShowAlways(c) == TRUE

\* The show_passwords run_cli hands to list_passwords.
ListShow(c) == c.show_passwords

\* A call that asks for one password whatever the count.
GenerateArgsOne(c) == [length |-> c.length, flags |-> c.flags, count |-> 1]

\* The policy run_cli hands to generate_password: the command's own options.
GenerateArgs(c) == [length |-> c.length, flags |-> c.flags, count |-> c.count]

\* A call that hands over the current passphrase.
RekeyArgOld(m, new_m) == m

\* The passphrase the router hands to update_master_password.
RekeyArg(m, new_m) == new_m

--------------------------------------------------------------------------
(* The action layer.  Each action takes the opened vault file and returns  *)
(* its result, the file as it leaves it, what it wrote to the sink and the *)
(* password it revealed.                                                   *)

Done(res, f, written, pw) ==
    [res |-> res, file |-> f, written |-> written, shown |-> pw]

\* add: the generated password if the generate flag is set, else the literal;
\* neither is a validation error.  g is the generator's outcome, io a failed write.
add_password(f, k, password, generate, g, io) ==
    LET pw == IF generate THEN g ELSE password IN
    IF generate /\ g \in Errors THEN Done(g, f, <<>>, None)
    ELSE IF pw = None THEN Done("ValidationError", f, <<>>, None)
    ELSE IF io THEN Done("IoError", f, <<>>, None)
    ELSE Done("Ok", InsertRecord(f, k, pw), <<>>, None)

\* generate: count passwords under the policy, one row each; it fails when
\* the flags leave the alphabet empty, whatever the count.
generate_password(ps, flags, count) ==
    IF flags = {} THEN Done("GenerationError", EmptyFile, <<>>, None)
    ELSE IF \E i \in 1..count : ps[i] \in Errors
    THEN Done(ps[1], EmptyFile, <<>>, None)
    ELSE Done("Ok", EmptyFile,
              <<Entry("Raw", "", "Random password generated.",
                      [i \in 1..count |-> <<ps[i]>>])>>, None)

\* The order in which the vault yields its records.
KeySeq == <<<<"s1", None>>, <<"s1", "u1">>, <<"s1", "u2">>>>
MaskedPassword == "********"

\* list: one row per record, the password masked unless show_passwords.
list_passwords(f, show) ==
    LET present == SelectSeq(KeySeq, LAMBDA k : FindRecord(f, k) # None)
        row(k) == <<k[1], k[2], IF show THEN FindRecord(f, k) ELSE MaskedPassword>>
    IN  Done("Ok", f,
             <<Entry("Raw", "Service/Username/Password", "",
                     [i \in 1..Len(present) |-> row(present[i])])>>, None)

\* remove: delete the record of the key; not found if there is none.
remove_password(f, k, io) ==
    IF FindRecord(f, k) = None THEN Done("NotFoundError", f, <<>>, None)
    ELSE IF io THEN Done("IoError", f, <<>>, None)
    ELSE Done("Ok", DeleteRecord(f, k),
              <<Entry("Raw", "", "Password deleted", <<>>)>>, None)

\* show: the password of the key, unmasked; not found if there is none.
show_password(f, k) ==
    IF FindRecord(f, k) = None THEN Done("NotFoundError", f, <<>>, None)
    ELSE Done("Ok", f, <<Entry("Raw", "Password: ", FindRecord(f, k), <<>>)>>,
              FindRecord(f, k))

\* A re-key that fails partway: the vault is under the new passphrase with
\* its records lost.
update_master_partial(f, new, io) ==
    IF io THEN Done("IoError", [key |-> new, recs |-> NoRecords], <<>>, None)
    ELSE Done("Ok", Rekey(f, new), <<>>, None)

\* update_master: re-key the vault; a failed write leaves it as it was.
update_master_password(f, new, io) ==
    IF io THEN Done("IoError", f, <<>>, None)
    ELSE Done("Ok", Rekey(f, new),
              <<Entry("Success", "", "Master password updated successfully", <<>>)>>,
              None)

--------------------------------------------------------------------------
(* State. *)

VARIABLES
    files,       \* the vault file at each path
    known,       \* per path and key, what the successful actions so far say of it
    pc,          \* where the current invocation stands
    router,      \* "run_cli" or "map": the router this build of the program enters
    cmd,         \* the Command of the current invocation
    master,      \* the resolved master passphrase
    new_master,  \* the resolved new master passphrase (UpdateMaster)
    openRes,     \* the result of PasswordStore::new ("None": not attempted)
    actRes,      \* the result of the action ("None": not invoked)
    shown,       \* the password the action wrote to the sink, if it wrote one
    out,         \* the output sink of the current invocation
    events,      \* the prompts, the open and the action call, in order
    before,      \* the vault files when the invocation started
    reader,      \* the lines left in the input source
    file_arg,    \* the --file-name the user passes in this behaviour
    session,     \* the REPL session: the selection being served and its open
    runs         \* the commands and REPL selections started so far

vars == <<files, known, pc, router, cmd, master, new_master, openRes, actRes,
          shown, out, events, before, reader, file_arg, session, runs>>

\* The longest input a REPL session is given, in lines.
MaxInput == 2

Unknown == [p \in Paths |-> [k \in Keys |-> "unknown"]]

\* A REPL session before its first selection: nothing selected, no open yet.
NoSession == [selection |-> None, opened |-> "None"]

\* The vaults a run can find on disk: none yet, an empty one, one with a record.
InitFiles ==
    {EmptyFile}
    \cup {[key |-> m, recs |-> NoRecords] : m \in Passphrases}
    \cup {[key |-> "m1", recs |-> {<<k, "p1">>}] : k \in Keys}

Init ==
    /\ files \in [Paths -> InitFiles]
    /\ router \in {"run_cli", "map"}
    /\ file_arg \in FileNames
    /\ router = "map" => file_arg = None
    /\ \A p \in Paths \ {ResolvePath(file_arg)} : files[p] = EmptyFile
    /\ known = Unknown
    /\ pc = "idle"
    /\ cmd = NoCmd
    /\ master = None
    /\ new_master = None
    /\ openRes = "None"
    /\ actRes = "None"
    /\ shown = None
    /\ out = <<>>
    /\ events = <<>>
    /\ before = files
    /\ reader = <<>>
    /\ session = NoSession
    /\ runs = 0

path == ResolvePath(cmd.file_name)

\* unwrap_or_else calls read_hidden_input only for an absent option: the
\* answers the prompt can give, and the record of the prompt.
Answers(opt) == IF opt = None THEN Passphrases ELSE {None}
Prompted(opt, label, answer) ==
    IF opt = None THEN Append(events, <<"prompt", label, answer>>) ELSE events

--------------------------------------------------------------------------
(* run_cli, step by step. *)

\* run_cli is entered with a parsed Command: the match on args.command.
Dispatch ==
    /\ pc = "idle"
    /\ router = "run_cli"
    /\ runs < MaxRuns
    /\ \E c \in Commands \ ReplCommands :
          /\ NeedsVault(c.op) => c.file_name = file_arg
          /\ cmd' = c
          /\ pc' = IF NeedsVault(c.op) THEN "master" ELSE "act"
    /\ runs' = runs + 1
    /\ before' = files
    /\ UNCHANGED <<files, known, router, master, new_master, openRes, actRes, shown,
                   out, events, reader, file_arg, session>>

\* let master = master.unwrap_or_else(|| read_hidden_input("master password", ..))
PromptMaster ==
    /\ pc = "master"
    /\ \E answer \in Answers(cmd.master) :
          /\ master' = ResolveSecret(cmd.master, answer)
          /\ events' = Prompted(cmd.master, MasterLabel, answer)
    /\ pc' = AfterMaster(cmd.op)
    /\ UNCHANGED <<files, known, router, cmd, new_master, openRes, actRes, shown,
                   out, before, reader, file_arg, runs, session>>

\* let new_master = new_master.unwrap_or_else(|| read_hidden_input("new master password", ..))
PromptNewMaster ==
    /\ pc = "new_master"
    /\ \E answer \in Answers(cmd.new_master) :
          /\ new_master' = ResolveSecret(cmd.new_master, answer)
          /\ events' = Prompted(cmd.new_master, NewMasterLabel, answer)
    /\ pc' = "open"
    /\ UNCHANGED <<files, known, router, cmd, master, openRes, actRes, shown,
                   out, before, reader, file_arg, runs, session>>

\* match PasswordStore::new(file_path, master): Err is printed and run_cli returns.
OpenStore ==
    /\ pc = "open"
    /\ \E io \in BOOLEAN :
          LET res == OpenResult(files[path], master, io) IN
          /\ openRes' = res
          /\ files' = IF res = "Ok"
                      THEN [files EXCEPT ![path] = OpenedFile(@, master)]
                      ELSE files
          /\ out' = IF res = "Ok" THEN out ELSE Append(out, OpenErrEntry(cmd.op, res))
          /\ pc' = AfterOpen(res)
    /\ events' = Append(events, <<"open", path, master>>)
    /\ UNCHANGED <<known, router, cmd, master, new_master, actRes, shown,
                   before, reader, file_arg, runs, session>>

\* What the router adds to the sink after the action returned.
RouterPrints(op, res) ==
    IF res # "Ok" THEN <<ActErrEntry(op, res)>>
    ELSE IF op = "Add" THEN <<AddedEntry>>
    ELSE <<>>

\* What a successful action tells of the key it was asked about.
Learn(c, r) ==
    IF r.res # "Ok" THEN known
    ELSE IF c.op = "Add"
         THEN [known EXCEPT ![ResolvePath(c.file_name)][<<c.service, c.username>>] =
                  IF c.generate THEN "generated" ELSE c.password]
    ELSE IF c.op = "Remove"
         THEN [known EXCEPT ![ResolvePath(c.file_name)][<<c.service, c.username>>] =
                  IF @ \in PasswordLits \cup {"generated"}
                  THEN "added, removed" ELSE "removed"]
    ELSE known

\* The action returned r, having made the calls evs: the router prints the
\* outcome and run_cli returns.
FinishWith(r, evs) ==
    /\ files' = IF cmd.op = "Generate" THEN files ELSE [files EXCEPT ![path] = r.file]
    /\ actRes' = r.res
    /\ shown' = r.shown
    /\ out' = out \o r.written \o RouterPrints(cmd.op, r.res)
    /\ known' = Learn(cmd, r)
    /\ events' = Append(events, <<"act", cmd.op, "">>) \o evs
    /\ pc' = "done"
    /\ UNCHANGED <<router, cmd, master, new_master, openRes, before, reader, file_arg, runs, session>>

Finish(r) == FinishWith(r, <<>>)

\* The call of the generator, as the events record it.
Generated(g) == <<"gen", g, "">>

\* add_password(.., password, generate, password_generator): the generator is
\* used inside the action, when the generate flag is set.
ActAdd ==
    /\ pc = "act" /\ cmd.op = "Add"
    /\ LET pg == PasswordGeneratorOf(cmd) IN
       \E io \in BOOLEAN, g \in GenOutcomes(pg.length, pg.flags) :
          FinishWith(add_password(files[path], AddKey(cmd), cmd.password,
                                  cmd.generate, g, io),
                     IF cmd.generate THEN <<Generated(g)>> ELSE <<>>)

ActGenerate ==
    /\ pc = "act" /\ cmd.op = "Generate"
    /\ LET a == GenerateArgs(cmd) IN
       \E ps \in [1..a.count -> GenOutcomes(a.length, a.flags)] :
          Finish(generate_password(ps, a.flags, a.count))

ActList ==
    /\ pc = "act" /\ cmd.op = "List"
    /\ Finish(list_passwords(files[path], ListShow(cmd)))

ActRemove ==
    /\ pc = "act" /\ cmd.op = "Remove"
    /\ \E io \in BOOLEAN :
          Finish(remove_password(files[path], RemoveKey(cmd), io))

ActShow ==
    /\ pc = "act" /\ cmd.op = "Show"
    /\ Finish(show_password(files[path], ShowKey(cmd)))

ActUpdateMaster ==
    /\ pc = "act" /\ cmd.op = "UpdateMaster"
    /\ \E io \in BOOLEAN :
          Finish(update_master_password(files[path], RekeyArg(master, new_master), io))

--------------------------------------------------------------------------
(* Command::map of commands.rs: the action is called with the options as   *)
(* they are, and every Result is unwrapped with expect.  The actions of    *)
(* that router resolve the passphrase and open the default vault           *)
(* themselves.                                                             *)

MapDispatch ==
    /\ pc = "idle"
    /\ router = "map"
    /\ runs < MaxRuns
    /\ \E c \in MapCommands : cmd' = c
    /\ pc' = "map"
    /\ runs' = runs + 1
    /\ before' = files
    /\ UNCHANGED <<files, known, router, master, new_master, openRes, actRes, shown,
                   out, events, reader, file_arg, session>>

\* .expect(..) on the action's Result: Err panics, Ok returns.
Expect(res) == IF res = "Ok" THEN "done" ELSE "panicked"

\* An action of commands.rs returned r, after opening (or failing to open)
\* the default vault with passphrase m.
MapFinish(m, ores, r) ==
    /\ master' = m
    /\ openRes' = ores
    /\ files' = IF ores = "Ok"
                THEN [files EXCEPT ![DEFAULT_PASSWORD_FILENAME] = r.file] ELSE files
    /\ actRes' = IF ores = "Ok" THEN r.res ELSE ores
    /\ shown' = IF ores = "Ok" THEN r.shown ELSE None
    /\ out' = IF ores = "Ok" THEN out \o r.written ELSE out
    /\ known' = IF ores = "Ok" THEN Learn(cmd, r) ELSE known
    /\ events' = Append(events, <<"act", cmd.op, "">>)
    /\ pc' = Expect(IF ores = "Ok" THEN r.res ELSE ores)
    /\ UNCHANGED <<router, cmd, new_master, before, reader, file_arg, runs, session>>

\* Add, generate flag set: Some(get_random_password(length, symbols, ..)) is
\* computed first, from the command's own options.
MapGetRandomPassword ==
    /\ pc = "map" /\ cmd.op = "Add" /\ cmd.generate
    /\ \E g \in GenOutcomes(cmd.length, cmd.flags) :
          events' = Append(events, Generated(g))
    /\ pc' = "map_add"
    /\ UNCHANGED <<files, known, router, cmd, master, new_master, openRes, actRes,
                   shown, out, before, reader, file_arg, runs, session>>

\* The password Command::map hands to add_password: the generated one when
\* the generate flag is set, else the option as it is.
MapPassword ==
    IF cmd.generate THEN events[Len(events)][2] ELSE cmd.password

\* Add: add_password(service, username, master, password).
MapAdd ==
    /\ cmd.op = "Add"
    /\ \/ pc = "map" /\ ~cmd.generate
       \/ pc = "map_add"
    /\ \E answer \in Answers(cmd.master), io1 \in BOOLEAN, io2 \in BOOLEAN :
          LET m == ResolveSecret(cmd.master, answer)
              f == files[DEFAULT_PASSWORD_FILENAME]
          IN  MapFinish(m, OpenResult(f, m, io1),
                        add_password(OpenedFile(f, m), ActionKey(cmd), MapPassword,
                                     FALSE, None, io2))

\* Generate: generate_password(..) returns nothing to unwrap.
MapGenerate ==
    /\ pc = "map" /\ cmd.op = "Generate"
    /\ \E ps \in [1..cmd.count -> GenOutcomes(cmd.length, cmd.flags)] :
          LET r == generate_password(ps, cmd.flags, cmd.count) IN
          /\ actRes' = r.res
          /\ out' = out \o r.written
    /\ events' = Append(events, <<"act", "Generate", "">>)
    /\ pc' = "done"
    /\ UNCHANGED <<files, known, router, cmd, master, new_master, openRes, shown,
                   before, reader, file_arg, runs, session>>

MapList ==
    /\ pc = "map" /\ cmd.op = "List"
    /\ \E answer \in Answers(cmd.master), io1 \in BOOLEAN :
          LET m == ResolveSecret(cmd.master, answer)
              f == files[DEFAULT_PASSWORD_FILENAME]
          IN  MapFinish(m, OpenResult(f, m, io1),
                        list_passwords(OpenedFile(f, m), cmd.show_passwords))

MapRemove ==
    /\ pc = "map" /\ cmd.op = "Remove"
    /\ \E answer \in Answers(cmd.master), io1 \in BOOLEAN, io2 \in BOOLEAN :
          LET m == ResolveSecret(cmd.master, answer)
              f == files[DEFAULT_PASSWORD_FILENAME]
          IN  MapFinish(m, OpenResult(f, m, io1),
                        remove_password(OpenedFile(f, m), ActionKey(cmd), io2))

MapShow ==
    /\ pc = "map" /\ cmd.op = "Show"
    /\ \E answer \in Answers(cmd.master), io1 \in BOOLEAN :
          LET m == ResolveSecret(cmd.master, answer)
              f == files[DEFAULT_PASSWORD_FILENAME]
          IN  MapFinish(m, OpenResult(f, m, io1),
                        show_password(OpenedFile(f, m), ActionKey(cmd)))

--------------------------------------------------------------------------
(* Command::Repl: the interactive loop over the input source.  A line of   *)
(* the input is a selection; the follow-up fields of an action are choices *)
(* of the step that runs it.  The session resolves the master passphrase   *)
(* once, at the first selection that needs the vault, and opens the vault  *)
(* for each such selection.                                                *)

ExitLine == "exit"
VaultLines == {"add", "remove", "update master"}
Lines == {ExitLine, "bogus"} \cup VaultLines
Inputs == UNION {[1..n -> Lines] : n \in 0..MaxInput}

WelcomeEntry == Entry("Raw", "", "Welcome to LOCKBOX!", <<>>)
MenuEntry ==
    Entry("Raw", "", "[1] add [2] generate [3] list [4] remove [5] show [6] update master [7] exit", <<>>)
InvalidEntry == Entry("Error", "Error: ", "invalid selection", <<>>)

\* What a session counts for among the commands of a behaviour.
Selections(input) == IF input = <<>> THEN 1 ELSE Len(input)

\* Command::Repl { file_name } => repl(reader, writer, prompt_password, file_name)
ReplDispatch ==
    /\ pc = "idle"
    /\ router = "run_cli"
    /\ \E c \in ReplCommands : c.file_name = file_arg /\ cmd' = c
    /\ \E input \in Inputs :
          /\ runs + Selections(input) <= MaxRuns
          /\ reader' = input
          /\ runs' = runs + Selections(input)
    /\ pc' = "repl"
    /\ out' = <<WelcomeEntry>>
    /\ session' = NoSession
    /\ before' = files
    /\ UNCHANGED <<files, known, router, master, new_master, openRes, actRes, shown,
                   events, file_arg>>

\* The line the selection prompt reads: the next line, or end-of-input.
NextLine == IF reader = <<>> THEN "eof" ELSE Head(reader)

\* A loop that goes on reading at end-of-input.
ReplAfterLineNoEof(line) ==
    IF line = ExitLine THEN "done"
    ELSE IF line \in VaultLines THEN "repl_open"
    ELSE "repl"

\* A loop that also ends on a line it does not recognise.
ReplAfterLineStrict(line) ==
    IF line \in VaultLines THEN "repl_open" ELSE "done"

\* Where a selection leads: exit and end-of-input end the loop, a selection
\* that needs the vault goes on to open it, anything else is back at the menu.
ReplAfterLine(line) ==
    IF line \in {ExitLine, "eof"} THEN "done"
    ELSE IF line \in VaultLines THEN "repl_open"
    ELSE "repl"

\* MenuPrompt: the menu, one line of input, the selection.
ReplSelect ==
    /\ pc = "repl"
    /\ out' = IF NextLine \in {ExitLine, "eof"} \cup VaultLines
              THEN Append(out, MenuEntry)
              ELSE out \o <<MenuEntry, InvalidEntry>>
    /\ pc' = ReplAfterLine(NextLine)
    /\ session' = [selection |-> IF NextLine \in VaultLines THEN NextLine ELSE None,
                   opened |-> "None"]
    /\ events' = Append(events, <<"line", NextLine, "">>)
    /\ reader' = IF reader = <<>> THEN reader ELSE Tail(reader)
    /\ UNCHANGED <<files, known, router, cmd, master, new_master, openRes, actRes,
                   shown, before, file_arg, runs>>

\* An open whose failure is printed and then ignored.
ReplAfterOpenFallsThrough(res) == "repl_act"

\* A failed open is reported and the loop is back at the menu.
ReplAfterOpen(res) == IF res = "Ok" THEN "repl_act" ELSE "repl"

\* The vault is opened for the selection, with the session's passphrase,
\* prompted for when the session has none yet.
ReplOpen ==
    /\ pc = "repl_open"
    /\ \E answer \in Answers(master) :
          LET m == ResolveSecret(master, answer)
              res == OpenResult(files[path], m, FALSE)
          IN  /\ master' = m
              /\ events' = Prompted(master, MasterLabel, answer)
                              \o <<<<"open", path, m>>, <<"opened", res, "">>>>
              /\ session' = [session EXCEPT !.opened = res]
              /\ files' = IF res = "Ok"
                          THEN [files EXCEPT ![path] = OpenedFile(@, m)]
                          ELSE files
              /\ out' = IF res = "Ok" THEN out
                        ELSE Append(out, Entry("Error", "Error: ", res, <<>>))
              /\ pc' = ReplAfterOpen(res)
    /\ UNCHANGED <<known, router, cmd, new_master, openRes, actRes, shown,
                   before, reader, file_arg, runs>>

\* The follow-up fields of a selection, as the command they amount to.
ReplCommandsOf(line) ==
    CASE line = "add" ->
           {Cmd("Add", cmd.file_name, k, pw, None, None, FALSE, 2, {"lowercase"}, 1, FALSE) :
               k \in Keys, pw \in {None, "p1"}}
      [] line = "remove" ->
           {Cmd("Remove", cmd.file_name, k, None, None, None, FALSE, 2, {}, 1, FALSE) :
               k \in Keys}
      [] OTHER ->
           {Cmd("UpdateMaster", cmd.file_name, NoKey, None, None, nm, FALSE, 2, {}, 1, FALSE) :
               nm \in Passphrases}

\* The action of a command of the session, on the opened vault.
ReplResult(c) ==
    CASE c.op = "Add" ->
           add_password(files[path], AddKey(c), c.password, c.generate, None, FALSE)
      [] c.op = "Remove" -> remove_password(files[path], RemoveKey(c), FALSE)
      [] OTHER -> update_master_password(files[path], c.new_master, FALSE)

\* ActionPrompt and ActionExecuting: the fields are read, the action runs, its
\* outcome is printed and the loop is back at the menu.
ReplAct ==
    /\ pc = "repl_act"
    /\ \E c \in ReplCommandsOf(session.selection) :
          LET r == ReplResult(c) IN
          /\ files' = [files EXCEPT ![path] = r.file]
          /\ known' = Learn(c, r)
          /\ out' = out \o r.written \o
                    (IF r.res = "Ok" THEN (IF c.op = "Add" THEN <<AddedEntry>> ELSE <<>>)
                     ELSE <<Entry("Error", "Error: ", r.res, <<>>)>>)
          /\ master' = IF c.op = "UpdateMaster" /\ r.res = "Ok"
                       THEN c.new_master ELSE master
          /\ events' = Append(events, <<"act", c.op, r.res>>)
    /\ pc' = "repl"
    /\ UNCHANGED <<router, cmd, new_master, openRes, actRes, shown, before, reader,
                   file_arg, session, runs>>

\* The invocation is over; the next one starts from the vault files alone.
Return ==
    /\ pc \in {"done", "panicked"}
    /\ pc' = "idle"
    /\ cmd' = NoCmd
    /\ master' = None
    /\ new_master' = None
    /\ openRes' = "None"
    /\ actRes' = "None"
    /\ shown' = None
    /\ out' = <<>>
    /\ events' = <<>>
    /\ before' = files
    /\ reader' = <<>>
    /\ session' = NoSession
    /\ UNCHANGED <<files, known, router, file_arg, runs>>

Next ==
    \/ Dispatch
    \/ PromptMaster
    \/ PromptNewMaster
    \/ OpenStore
    \/ ActAdd
    \/ ActGenerate
    \/ ActList
    \/ ActRemove
    \/ ActShow
    \/ ActUpdateMaster
    \/ MapDispatch
    \/ MapGetRandomPassword
    \/ MapAdd
    \/ MapGenerate
    \/ MapList
    \/ MapRemove
    \/ MapShow
    \/ ReplDispatch
    \/ ReplSelect
    \/ ReplOpen
    \/ ReplAct
    \/ Return

Spec == Init /\ [][Next]_vars

--------------------------------------------------------------------------
(* Properties. *)

\* The vault file the current invocation works on.
VaultPath == IF router = "map" THEN DEFAULT_PASSWORD_FILENAME ELSE path
RequestedKey == <<cmd.service, cmd.username>>
Finished == pc \in {"done", "panicked"}

ErrorWrites == {i \in 1..Len(out) : out[i].msg \in Errors}
SuccessWrites == {i \in 1..Len(out) : out[i].msg \notin Errors}
EventKinds(kind) == {i \in 1..Len(events) : events[i][1] = kind}

\* C1: every single-command invocation, whatever the open and the action
\* return, ends with exactly one outcome on the sink, a success write or an
\* error write and never both or neither, and no panic escapes the router.
C1_OneOutcomeNoPanic ==
    /\ pc # "panicked"
    /\ (pc = "done" /\ cmd.op # "Repl") =>
          Cardinality(ErrorWrites) + Cardinality(SuccessWrites) = 1

\* run_cli alone keeps C1: the panics are those of Command::map.
RunCliOneOutcome == router = "run_cli" => C1_OneOutcomeNoPanic

\* C2: when run_cli fails to open the vault, it has reported that error and
\* returned: the action was not invoked, nothing but the error was written,
\* and the vault is as it was.
C2_OpenFailureStops ==
    (router = "run_cli" /\ openRes \notin {"None", "Ok"}) =>
        /\ pc = "done"
        /\ actRes = "None"
        /\ EventKinds("act") = {}
        /\ shown = None
        /\ Len(out) = 1
        /\ out[1].msg = openRes
        /\ out[1].rows = <<>>
        /\ files = before

C2_Witness ==
    /\ router = "run_cli" /\ pc = "done" /\ cmd.op = "Remove"
    /\ openRes = "AuthenticationError"
    /\ FindRecord(files[path], RequestedKey) # None

\* C3: every error written to the sink is rendered as "Error: {message}".
C3_ErrorsPrefixed ==
    \A i \in ErrorWrites : out[i].prefix = "Error: "

\* C4: a Generate invocation never opens a vault and never prompts: the vault
\* files are unchanged, and no prompt and no open has happened.
C4_GenerateNoVault ==
    cmd.op = "Generate" =>
        /\ files = before
        /\ openRes = "None"
        /\ master = None
        /\ EventKinds("prompt") = {}
        /\ EventKinds("open") = {}

C4_Witness ==
    /\ router = "run_cli" /\ pc = "done" /\ cmd.op = "Generate"
    /\ cmd.count = 2 /\ actRes = "Ok" /\ Len(out[1].rows) = 2

C4_WitnessFails ==
    /\ router = "run_cli" /\ pc = "done" /\ cmd.op = "Generate"
    /\ actRes = "GenerationError"

PromptAnswers(label) ==
    {events[i][3] : i \in {j \in EventKinds("prompt") : events[j][2] = label}}
PromptCount(label) ==
    Cardinality({j \in EventKinds("prompt") : events[j][2] = label})
OpenPassphrases == {events[i][3] : i \in EventKinds("open")}

\* C5: run_cli opens the vault with the explicit master option when it is
\* given, and then never prompts for it; when it is absent it prompts once
\* with the label "master password" and opens with the answer.  The same holds
\* of the new passphrase of UpdateMaster under the label "new master password",
\* and the vault is re-keyed to that passphrase.
C5_MasterResolved ==
    (router = "run_cli" /\ NeedsVault(cmd.op)) =>
        /\ cmd.master # None =>
              PromptCount(MasterLabel) = 0 /\ OpenPassphrases \subseteq {cmd.master}
        /\ cmd.master = None =>
              /\ PromptCount(MasterLabel) = (IF pc = "master" THEN 0 ELSE 1)
              /\ OpenPassphrases \subseteq PromptAnswers(MasterLabel)
        /\ cmd.op # "UpdateMaster" => PromptCount(NewMasterLabel) = 0
        /\ (cmd.op = "UpdateMaster" /\ pc \in {"open", "act", "done"}) =>
              /\ cmd.new_master # None =>
                    PromptCount(NewMasterLabel) = 0 /\ new_master = cmd.new_master
              /\ cmd.new_master = None =>
                    PromptCount(NewMasterLabel) = 1
                    /\ PromptAnswers(NewMasterLabel) = {new_master}
        /\ (cmd.op = "UpdateMaster" /\ pc = "done" /\ actRes = "Ok") =>
              files[path].key = new_master

C5_Witness ==
    /\ router = "run_cli" /\ pc = "done" /\ cmd.op = "UpdateMaster"
    /\ cmd.master = None /\ cmd.new_master = None
    /\ PromptAnswers(MasterLabel) = {"m1"} /\ PromptAnswers(NewMasterLabel) = {"m2"}
    /\ before[path].key = "m1" /\ actRes = "Ok" /\ files[path].key = "m2"

\* C6: once add has stored a password literal under a key, a show of that key
\* on the same vault succeeds and reveals exactly that password, whatever else
\* the vault holds.
C6_AddThenShow ==
    (Finished /\ cmd.op = "Show" /\ openRes = "Ok"
       /\ known[VaultPath][RequestedKey] \in PasswordLits) =>
        /\ actRes = "Ok"
        /\ shown = known[VaultPath][RequestedKey]
        /\ \E i \in 1..Len(out) :
              out[i].prefix = "Password: " /\ out[i].msg = known[VaultPath][RequestedKey]

C6_Witness ==
    /\ router = "run_cli" /\ pc = "done" /\ cmd.op = "Show"
    /\ known[path][RequestedKey] = "p2" /\ shown = "p2"
    /\ \E k \in Keys \ {RequestedKey} : FindRecord(files[path], k) = "p1"

\* C7 as stated: after a successful update_master the vault opens with the new
\* passphrase and holds the record set it held before, and it does not open
\* with the old passphrase.
C7_RekeyOldFails ==
    (router = "run_cli" /\ pc = "done" /\ cmd.op = "UpdateMaster" /\ actRes = "Ok") =>
        /\ OpenResult(files[path], new_master, FALSE) = "Ok"
        /\ RecordSet(OpenedFile(files[path], new_master)) = RecordSet(before[path])
        /\ OpenResult(files[path], master, FALSE) = "AuthenticationError"

\* C7, amended: the same, the old passphrase failing with AuthenticationError
\* when the new passphrase differs from it.
C7_Rekey ==
    (router = "run_cli" /\ pc = "done" /\ cmd.op = "UpdateMaster" /\ actRes = "Ok") =>
        /\ OpenResult(files[path], new_master, FALSE) = "Ok"
        /\ RecordSet(OpenedFile(files[path], new_master)) = RecordSet(before[path])
        /\ new_master # master =>
              OpenResult(files[path], master, FALSE) = "AuthenticationError"

C7_Witness ==
    /\ router = "run_cli" /\ pc = "done" /\ cmd.op = "UpdateMaster" /\ actRes = "Ok"
    /\ master = "m1" /\ new_master = "m2" /\ before[path].key = "m1"
    /\ RecordSet(files[path]) # {}

\* C8: an update_master that fails leaves the vault with every record it had
\* and readable under the old passphrase or the new one; in no state of an
\* UpdateMaster invocation is a vault that existed unreadable under both.
C8_RekeyAllOrNothing ==
    (router = "run_cli" /\ cmd.op = "UpdateMaster" /\ openRes = "Ok") =>
        /\ RecordSet(files[path]) = RecordSet(before[path])
        /\ \/ OpenResult(files[path], master, FALSE) = "Ok"
           \/ OpenResult(files[path], new_master, FALSE) = "Ok"
        /\ (pc = "done" /\ actRes # "Ok") =>
              OpenResult(files[path], master, FALSE) = "Ok"

C8_Witness ==
    /\ router = "run_cli" /\ pc = "done" /\ cmd.op = "UpdateMaster"
    /\ openRes = "Ok" /\ actRes = "IoError" /\ master # new_master
    /\ RecordSet(files[path]) # {}

\* C9: remove of a key the vault does not hold yields NotFoundError and leaves
\* the record set, and so the record count, as it was.
C9_RemoveMissing ==
    (Finished /\ cmd.op = "Remove" /\ openRes = "Ok"
       /\ FindRecord(before[VaultPath], RequestedKey) = None) =>
        /\ actRes = "NotFoundError"
        /\ RecordSet(files[VaultPath]) = RecordSet(before[VaultPath])
        /\ Cardinality(RecordSet(files[VaultPath])) =
              Cardinality(RecordSet(before[VaultPath]))
        /\ before[VaultPath].key # NoFile => files = before

C9_Witness ==
    /\ router = "run_cli" /\ pc = "done" /\ cmd.op = "Remove"
    /\ actRes = "NotFoundError" /\ RecordSet(files[path]) # {}

\* C10: after add and then remove of a key, show of that key yields
\* NotFoundError, whatever other records the vault holds.
C10_AddRemoveShow ==
    (Finished /\ cmd.op = "Show" /\ openRes = "Ok"
       /\ known[VaultPath][RequestedKey] = "added, removed") =>
        actRes = "NotFoundError"

C10_Witness ==
    /\ router = "run_cli" /\ pc = "done" /\ cmd.op = "Show"
    /\ known[path][RequestedKey] = "added, removed" /\ actRes = "NotFoundError"
    /\ RecordSet(files[path]) # {}

\* C11: an Add with no password and the generate flag unset fails with a
\* validation error: the vault holds the records it held, "Password added
\* successfully" is not written, and an error message is.
C11_AddNeedsPassword ==
    (Finished /\ cmd.op = "Add" /\ cmd.password = None /\ ~cmd.generate
       /\ openRes = "Ok") =>
        /\ actRes = "ValidationError"
        /\ RecordSet(files[VaultPath]) = RecordSet(before[VaultPath])
        /\ before[VaultPath].key # NoFile => files = before
        /\ \A i \in 1..Len(out) : out[i] # AddedEntry
        /\ \E i \in ErrorWrites : out[i].msg = "ValidationError"

\* run_cli alone keeps C11: the Err arm of its match prints the error.
RunCliAddNeedsPassword == router = "run_cli" => C11_AddNeedsPassword

\* C12: a Generate with count n and a character class enabled succeeds and
\* writes exactly n passwords, one per row, each of the requested length and
\* made of characters of the enabled classes only.
C12_GenerateCount ==
    (Finished /\ cmd.op = "Generate" /\ cmd.flags # {}) =>
        /\ actRes = "Ok"
        /\ Len(out) = 1
        /\ Len(out[1].rows) = cmd.count
        /\ \A i \in 1..Len(out[1].rows) :
              /\ Len(out[1].rows[i]) = 1
              /\ out[1].rows[i][1] \in GenPool
              /\ Len(CharsOf(out[1].rows[i][1])) = cmd.length
              /\ ClassesOf(out[1].rows[i][1]) \subseteq cmd.flags

C12_Witness ==
    /\ router = "run_cli" /\ pc = "done" /\ cmd.op = "Generate"
    /\ cmd.count = 2 /\ cmd.flags = {"lowercase", "numbers"}
    /\ out[1].rows = <<<<"a1">>, <<"1a">>>>

C13_WitnessGenerate ==
    /\ router = "run_cli" /\ pc = "done" /\ cmd.op = "Generate"
    /\ cmd.flags = {} /\ cmd.count = 2 /\ actRes = "GenerationError"

\* The vaults that differ from f in password values only.
SameKeysAs(f) ==
    LET ks == {r[1] : r \in f.recs} IN
    {[key |-> f.key, recs |-> {<<k, pws[k]>> : k \in ks}] :
        pws \in [ks -> PasswordLits \cup GenPool]}
ListedRows == out[1].rows
ListedKeys == {<<ListedRows[i][1], ListedRows[i][2]>> : i \in 1..Len(ListedRows)}

\* C14: a successful List writes one row per record.  With show_passwords
\* unset every row carries the mask in place of the password, so that the
\* output is that of any vault with the same keys and other passwords; with
\* show_passwords set every row carries the stored password of its record.
C14_ListMasks ==
    (Finished /\ cmd.op = "List" /\ actRes = "Ok") =>
        /\ Len(out) = 1
        /\ Len(ListedRows) = Cardinality(RecordSet(files[VaultPath]))
        /\ ListedKeys = {r[1] : r \in RecordSet(files[VaultPath])}
        /\ ~cmd.show_passwords =>
              /\ \A i \in 1..Len(ListedRows) : ListedRows[i][3] = MaskedPassword
              /\ \A f2 \in SameKeysAs(files[VaultPath]) :
                    list_passwords(f2, FALSE).written = out
        /\ cmd.show_passwords =>
              \A i \in 1..Len(ListedRows) :
                  <<<<ListedRows[i][1], ListedRows[i][2]>>, ListedRows[i][3]>>
                      \in RecordSet(files[VaultPath])

C14_Witness ==
    /\ router = "run_cli" /\ pc = "done" /\ cmd.op = "List" /\ actRes = "Ok"
    /\ ~cmd.show_passwords
    /\ {r[2] : r \in RecordSet(files[path])} = {"p1", "p2"}

C14_WitnessReveal ==
    /\ router = "run_cli" /\ pc = "done" /\ cmd.op = "List" /\ actRes = "Ok"
    /\ cmd.show_passwords
    /\ {ListedRows[i][3] : i \in 1..Len(ListedRows)} = {"p1", "p2"}

InRepl == cmd.op = "Repl"
ReplErrorWrites == {i \in 1..Len(out) : out[i].style = "Error"}

\* C15: a REPL session whose first line is the exit selection, or that finds
\* end-of-input at its first selection prompt, is over: the menu was printed
\* once, no error was written, no passphrase was asked for and the vault files
\* are as they were.
C15_ReplExits ==
    (InRepl /\ events # <<>> /\ events[1] \in {<<"line", ExitLine, "">>, <<"line", "eof", "">>}) =>
        /\ pc = "done"
        /\ Len(events) = 1
        /\ out = <<WelcomeEntry, MenuEntry>>
        /\ ReplErrorWrites = {}
        /\ master = None
        /\ files = before

C15_Witness ==
    /\ InRepl /\ pc = "done" /\ events = <<<<"line", ExitLine, "">>>>
    /\ RecordSet(files[path]) # {}

C15_WitnessEof ==
    /\ InRepl /\ pc = "done" /\ events = <<<<"line", "eof", "">>>>
    /\ RecordSet(files[path]) # {}

\* C16: in a REPL session no step is fatal.  A line that is no selection
\* gets the menu and an error, leaves the vault files alone and the loop at
\* the menu, reading on; an action that fails on its fields prints an error,
\* leaves the vault files alone and returns to the menu; and the loop ends
\* only at the menu, on the exit selection or on end-of-input.
C16_InvalidNotFatal ==
    [][InRepl =>
          /\ pc' # "panicked"
          /\ (pc = "repl" /\ NextLine \notin {ExitLine, "eof"} \cup VaultLines) =>
                /\ pc' = "repl"
                /\ out' = out \o <<MenuEntry, InvalidEntry>>
                /\ reader' = Tail(reader)
                /\ files' = files
          /\ pc = "repl_act" =>
                /\ pc' = "repl"
                /\ events'[Len(events')][3] # "Ok" =>
                      /\ files' = files
                      /\ out' = Append(out, Entry("Error", "Error: ",
                                                  events'[Len(events')][3], <<>>))
          /\ (pc # "done" /\ pc' = "done") =>
                pc = "repl" /\ NextLine \in {ExitLine, "eof"}]_vars

C16_Witness ==
    /\ InRepl /\ pc = "repl" /\ Len(events) = 1 /\ events[1] = <<"line", "bogus", "">>
    /\ reader # <<>> /\ out = <<WelcomeEntry, MenuEntry, InvalidEntry>>
    /\ RecordSet(files[path]) # {}

C16_WitnessFields ==
    /\ InRepl /\ pc = "repl" /\ events # <<>>
    /\ events[Len(events)] = <<"act", "Add", "ValidationError">>
    /\ reader # <<>>

\* The opens of the session that failed on the passphrase.
WrongOpens ==
    {i \in EventKinds("opened") : events[i][2] = "AuthenticationError"}

\* C17: in a REPL session a wrong master passphrase is reported before any
\* action proceeds: the open that fails writes its error and changes no
\* vault file, an action runs only on a vault opened with its passphrase, and
\* from a state in which the vault was opened with a passphrase that does not
\* match it no step changes a vault file.
C17_WrongPassphraseFirst ==
    [][InRepl =>
          /\ WrongOpens # {} => files' = files
          /\ pc = "repl_open" =>
                \/ session'.opened = "Ok" /\ pc' = "repl_act"
                \/ /\ session'.opened # "Ok" /\ pc' = "repl" /\ files' = files
                   /\ out' = Append(out, Entry("Error", "Error: ", session'.opened, <<>>))
          /\ pc = "repl_act" =>
                session.opened = "Ok" /\ files[path].key = master]_vars

C17_Witness ==
    /\ InRepl /\ pc = "done" /\ Cardinality(WrongOpens) = 2
    /\ Cardinality(ReplErrorWrites) = 2
    /\ RecordSet(files[path]) # {} /\ files = before

\* C18: every vault holds at most one record per (service, username).  A
\* successful Add leaves exactly its own record under its key, in place of
\* the one the key had, and every record of another key, of the same service
\* too, as it was; a successful Remove deletes the record of its key and no
\* other.
C18_OneRecordPerKey ==
    /\ \A p \in Paths : \A k \in Keys : Cardinality(RecordsOf(files[p], k)) <= 1
    /\ (Finished /\ cmd.op \in {"Add", "Remove"} /\ actRes = "Ok") =>
          /\ \A k \in Keys \ {RequestedKey} :
                RecordsOf(files[VaultPath], k) = RecordsOf(before[VaultPath], k)
          /\ cmd.op = "Remove" => RecordsOf(files[VaultPath], RequestedKey) = {}
          /\ cmd.op = "Add" =>
                \E pw \in PasswordLits \cup GenPool :
                    /\ RecordsOf(files[VaultPath], RequestedKey) = {<<RequestedKey, pw>>}
                    /\ ~cmd.generate => pw = cmd.password

C18_Witness ==
    /\ router = "run_cli" /\ pc = "done" /\ cmd.op = "Add" /\ actRes = "Ok"
    /\ RequestedKey = <<"s1", "u1">> /\ cmd.password = "p2"
    /\ FindRecord(before[path], RequestedKey) = "p1"
    /\ RecordSet(files[path]) = {<<<<"s1", "u1">>, "p2">>, <<<<"s1", "u2">>, "p1">>}

C18_WitnessRemove ==
    /\ router = "run_cli" /\ pc = "done" /\ cmd.op = "Remove" /\ actRes = "Ok"
    /\ RequestedKey = <<"s1", "u1">>
    /\ RecordSet(files[path]) = {<<<<"s1", "u2">>, "p1">>}

\* The passwords the generator returned in this invocation.
GeneratedPasswords == {events[i][2] : i \in EventKinds("gen")}

\* C19: in an Add with the generate flag set the generator is called once at
\* most, and before the record of the key changes; when the Add succeeds it
\* was called exactly once, the password it returned has the command's own
\* length and classes, and the record stored under the key holds that
\* password, not the literal that may have been supplied.  In Command::map
\* the call precedes the call of add_password.
C19_AddGenerates ==
    (cmd.op = "Add" /\ cmd.generate) =>
        /\ Cardinality(EventKinds("gen")) <= 1
        /\ RecordsOf(files[VaultPath], RequestedKey)
               # RecordsOf(before[VaultPath], RequestedKey) => EventKinds("gen") # {}
        /\ router = "map" =>
              \A i \in EventKinds("act") : \E j \in EventKinds("gen") : j < i
        /\ (Finished /\ actRes = "Ok") =>
              /\ Cardinality(EventKinds("gen")) = 1
              /\ \A g \in GeneratedPasswords :
                    /\ g \in GenPool
                    /\ g # cmd.password
                    /\ Len(CharsOf(g)) = cmd.length
                    /\ ClassesOf(g) \subseteq cmd.flags
                    /\ router = "run_cli" => ClassesOf(g) = cmd.flags
                    /\ RecordsOf(files[VaultPath], RequestedKey) = {<<RequestedKey, g>>}

C19_Witness ==
    /\ router = "run_cli" /\ pc = "done" /\ cmd.op = "Add" /\ cmd.generate
    /\ cmd.password = "p1" /\ cmd.flags = {"lowercase", "numbers"} /\ actRes = "Ok"
    /\ FindRecord(before[path], RequestedKey) = "p1"
    /\ FindRecord(files[path], RequestedKey) = "1a"

C19_WitnessMap ==
    /\ router = "map" /\ pc = "map_add" /\ cmd.generate /\ cmd.password = "p1"
    /\ GeneratedPasswords = {"a1"} /\ files = before

PromptsOf(label) == {i \in EventKinds("prompt") : events[i][2] = label}

\* C20: in every vault command of run_cli the prompts come first, then the
\* one open, then the one call of the action.  Once the open is attempted,
\* every passphrase that was not given as an option has been prompted for,
\* "master password" before "new master password".  So an UpdateMaster whose
\* current passphrase is wrong has taken the new passphrase already when the
\* open fails, and the vault is not re-keyed.
C20_PromptsBeforeOpen ==
    (router = "run_cli" /\ NeedsVault(cmd.op)) =>
        /\ Cardinality(EventKinds("open")) <= 1
        /\ Cardinality(EventKinds("act")) <= 1
        /\ \A i \in EventKinds("prompt") : \A j \in EventKinds("open") : i < j
        /\ \A j \in EventKinds("act") : \E i \in EventKinds("open") : i < j
        /\ \A i \in PromptsOf(MasterLabel) : \A j \in PromptsOf(NewMasterLabel) : i < j
        /\ EventKinds("open") # {} =>
              /\ PromptCount(MasterLabel) = (IF cmd.master = None THEN 1 ELSE 0)
              /\ PromptCount(NewMasterLabel) =
                    (IF cmd.op = "UpdateMaster" /\ cmd.new_master = None THEN 1 ELSE 0)
        /\ (cmd.op = "UpdateMaster" /\ openRes = "AuthenticationError") =>
              /\ new_master # None
              /\ EventKinds("act") = {}
              /\ files = before
              /\ OpenResult(files[path], master, FALSE) = "AuthenticationError"

C20_Witness ==
    /\ router = "run_cli" /\ pc = "done" /\ cmd.op = "UpdateMaster"
    /\ cmd.master = None /\ cmd.new_master = None
    /\ openRes = "AuthenticationError"
    /\ events = <<<<"prompt", MasterLabel, "m2">>, <<"prompt", NewMasterLabel, "m1">>,
                  <<"open", path, "m2">>>>
    /\ RecordSet(files[path]) # {}

====
